---- MODULE Spec2Model ----
(***************************************************************************)
(* A model of src/import/k8s.ts: ImportKubernetesApi.match, the            *)
(* constructor, generateTypeScript (download, module-name check, scan,     *)
(* type generator construction, rewrite loop, construct loop, header,      *)
(* render), findApiObjectDefinitions and tryGetObjectName.                 *)
(*                                                                         *)
(* Strings that the code takes apart (the import source, definition keys)  *)
(* are sequences: a source is a sequence of one-character strings, a       *)
(* definition key is the sequence of its dot-separated segments.  Names    *)
(* that the code only builds by concatenation are TLA+ strings.            *)
(***************************************************************************)
EXTENDS Integers, Sequences, FiniteSets, TLC

VARIABLES
  pc,              \* position of the single import run
  error,           \* the error that reached the caller ("" when none)
  source,          \* importSpec.source as given to match
  options,         \* ImportKubernetesApiOptions: [apiVersion, exclude]
  moduleName,      \* generateTypeScript's moduleName argument
  classNamePrefix, \* GenerateOptions.classNamePrefix: [undef] or [value]
  retrievals,      \* number of download(url) calls started
  schema,          \* schema.definitions as the ordered list of its entries
  si,              \* findApiObjectDefinitions: index of the next entry
  result,          \* findApiObjectDefinitions: its local result array
  topLevelObjects, \* generateTypeScript: the scan's returned descriptors
  tg,              \* the TypeGenerator: definitions, exclude, registrations
  ri,              \* index of the rewrite loop (line 92)
  gi,              \* index of the construct loop (line 97)
  code             \* the CodeMaker: [header, types]

vars == <<pc, error, source, options, moduleName, classNamePrefix, retrievals,
          schema, si, result, topLevelObjects, tg, ri, gi, code>>

(***************************************************************************)
(* Bounds of the model.                                                    *)
(***************************************************************************)
MaxTail == 7
MaxDefs == 3

(***************************************************************************)
(* Strings as character sequences.                                         *)
(***************************************************************************)
Digits == {"0", "1", "2", "3", "4", "5", "6", "7", "8", "9"}

RECURSIVE Split(_, _)
\* String.prototype.split(sep) for a one-character separator
Split(s, sep) ==
  IF \A i \in 1..Len(s) : s[i] # sep
    THEN <<s>>
    ELSE LET i == CHOOSE j \in 1..Len(s) :
                    s[j] = sep /\ \A k \in 1..(j - 1) : s[k] # sep
         IN  <<SubSeq(s, 1, i - 1)>> \o Split(SubSeq(s, i + 1, Len(s)), sep)

\* String.prototype.startsWith
StartsWith(s, p) == Len(s) >= Len(p) /\ SubSeq(s, 1, Len(p)) = p

Undefined == [undef |-> TRUE]

DEFAULT_API_VERSION == <<"1", ".", "2", "5", ".", "0">>

DEFAULT_CLASS_NAME_PREFIX == "Kube"

K8S == <<"k", "8", "s">>

\* /^\d+\.\d+\.\d+$/.test(v)
k8sVersionRegexTest(v) ==
  LET parts == Split(v, ".")
  IN  /\ Len(parts) = 3
      /\ \A i \in 1..3 : /\ Len(parts[i]) > 0
                         /\ \A j \in 1..Len(parts[i]) : parts[i][j] \in Digits

\* source !== 'k8s' && !source.startsWith('k8s@')
NotK8sFamily(src) == src # K8S /\ ~StartsWith(src, K8S \o <<"@">>)

\* source.split('@')[1] ?? DEFAULT_API_VERSION
k8sVersion(src) ==
  LET parts == Split(src, "@")
  IN  IF Len(parts) >= 2 THEN parts[2] ELSE DEFAULT_API_VERSION

(***************************************************************************)
(* The import sources the model explores.                                  *)
(***************************************************************************)
RECURSIVE SeqsUpTo(_, _)
SeqsUpTo(S, n) ==
  IF n = 0 THEN {<<>>}
  ELSE LET shorter == SeqsUpTo(S, n - 1)
       IN  shorter \cup {Append(s, c) : s \in shorter, c \in S}

TailAlphabet == {"@", ".", "1", "x"}

Heads == {K8S, <<"h", "e", "l", "m">>}

AllSources == {h \o t : h \in Heads, t \in SeqsUpTo(TailAlphabet, MaxTail)}

SmallSources == {K8S, K8S \o <<"@", "x">>, <<"h", "e", "l", "m">>}

(***************************************************************************)
(* Definition keys, definition nodes and schemas.                          *)
(*                                                                         *)
(* A key is the sequence of its dot-separated segments.  A node is either  *)
(* a shape [xgvk, metadata, refs] (xgvk: the value under                   *)
(* 'x-kubernetes-group-version-kind', Undefined or [list |-> <<...>>];     *)
(* metadata: whether properties.metadata is declared; refs: the keys its   *)
(* $ref's name) or an indirection [ref |-> key], standing for               *)
(* { $ref: '#/definitions/<key>' }.                                         *)
(***************************************************************************)
KW1 == <<"io", "v1", "Widget">>
KW2 == <<"io", "v2", "Widget">>
KK  == <<"KubeWidget">>
KG  == <<"io", "Gadget">>
KS  == <<"io", "v1", "WidgetSpec">>
KM  == <<"io", "ObjectMeta">>
KZ  == <<"io", "v1beta1", "Zone">>
KD  == <<"io", "v1", "Missing">>

T1 == [group |-> "io", kind |-> "Widget", version |-> "v1"]
T2 == [group |-> "io", kind |-> "Widget", version |-> "v2"]

Shape(x, m, r) == [xgvk |-> x, metadata |-> m, refs |-> r]

IsIndirection(node) == "ref" \in DOMAIN node

\* nodes that differ in what the classifier reads
ScanNodes ==
  { Shape(Undefined, TRUE, {}),
    Shape([list |-> <<>>], TRUE, {}),
    Shape([list |-> <<T1>>], FALSE, {}),
    Shape([list |-> <<T1>>], TRUE, {}),
    Shape([list |-> <<T2, T1>>], TRUE, {}) }

ScanKeys == {KW1, KW2, KG, KK}

Entry(k, n) == [key |-> k, node |-> n]

DistinctKeys(defs) ==
  \A i, j \in 1..Len(defs) : i # j => defs[i].key # defs[j].key

\* schemas whose entries vary in key, annotation and metadata
ScanSchemas ==
  UNION { { defs \in [1..n -> {Entry(k, nd) : k \in ScanKeys, nd \in ScanNodes}] :
              DistinctKeys(defs) } : n \in 0..MaxDefs }

MaxRefs == 2

RefSets(S) == {r \in SUBSET S : Cardinality(r) <= MaxRefs}

\* schemas whose entries vary in what they reference: two API objects, three
\* data shapes, references that may be shared, cyclic or dangling (KD)
GenSchemas ==
  { << Entry(KW1, Shape([list |-> <<T1>>], TRUE, r1)),
       Entry(KW2, Shape([list |-> <<T2>>], TRUE, r2)),
       Entry(KS, Shape(Undefined, FALSE, rs)),
       Entry(KM, Shape(Undefined, FALSE, rm)),
       Entry(KZ, Shape(Undefined, FALSE, rz)) >> :
      r1 \in RefSets({KS, KW2, KD}), r2 \in RefSets({KS, KM}),
      rs \in RefSets({KM, KZ}), rm \in RefSets({KZ}), rz \in RefSets({KS}) }

Schemas == ScanSchemas \cup GenSchemas

ExcludeLists == {{}, {KS}, {KM, KW2}}

ClassNamePrefixes == {Undefined, [value |-> "My"]}

ModuleNames == {"k8s", "helm"}

(***************************************************************************)
(* k8s-util.ts and codegen.ts: the helpers k8s.ts imports.                 *)
(***************************************************************************)
VersionSegments == {"v1", "v2", "v1beta1"}

\* parseApiTypeName: basename is the last segment; the version is the segment
\* before it when that segment is a version, and absent otherwise
parseApiTypeName(fullname) ==
  LET n == Len(fullname)
  IN  [ fullname |-> fullname,
        basename |-> fullname[n],
        version  |-> IF n >= 2 /\ fullname[n - 1] \in VersionSegments
                       THEN [raw |-> fullname[n - 1]]
                       ELSE Undefined ]

toPascalCase(v) ==
  CASE v = "v1" -> "V1"
    [] v = "v2" -> "V2"
    [] v = "v1beta1" -> "V1Beta1"
    [] OTHER -> v

\* getTypeName(custom, kind, version): the kind, version-qualified unless v1
getTypeName(custom, kind, version) ==
  kind \o (IF custom \/ version = "v1" THEN "" ELSE toPascalCase(version))

\* the wrapper (construct) type name of a descriptor
getConstructTypeName(def) ==
  def.prefix \o getTypeName(def.custom, def.kind, def.version)

\* the properties type name of a descriptor
getPropsTypeName(def) == getConstructTypeName(def) \o "Props"

(***************************************************************************)
(* k8s.ts: the classifier and the pieces of the scan.                      *)
(***************************************************************************)
tryGetObjectNameNoMetadataCheck(def) ==
  IF def.xgvk = Undefined THEN Undefined
  ELSE IF Len(def.xgvk.list) = 0 THEN Undefined
  ELSE def.xgvk.list[1]

tryGetObjectName(def) ==
  IF def.xgvk = Undefined THEN Undefined
  ELSE IF Len(def.xgvk.list) = 0 THEN Undefined
  ELSE IF ~def.metadata THEN Undefined
  ELSE def.xgvk.list[1]

MissingVersionNever(type) == FALSE

\* !type.version (line 127)
MissingVersion(type) == type.version = Undefined

ApiObjectDefinitionFromKey(type, objectName, apischema, prefix) ==
  [ custom  |-> FALSE,
    fqn     |-> type.fullname,
    group   |-> objectName.group,
    kind    |-> type.basename,
    version |-> type.version.raw,
    schema  |-> apischema,
    prefix  |-> prefix ]

\* the descriptor pushed at lines 130-138
ApiObjectDefinition(type, objectName, apischema, prefix) ==
  [ custom  |-> FALSE,
    fqn     |-> type.fullname,
    group   |-> objectName.group,
    kind    |-> objectName.kind,
    version |-> objectName.version,
    schema  |-> apischema,
    prefix  |-> prefix ]

\* options.classNamePrefix ?? DEFAULT_CLASS_NAME_PREFIX (line 71)
prefix == IF classNamePrefix = Undefined THEN DEFAULT_CLASS_NAME_PREFIX
          ELSE classNamePrefix.value

(***************************************************************************)
(* The rendering engine (json2jsii's TypeGenerator) and codegen.ts's       *)
(* generateConstruct, as far as k8s.ts drives them: a table of             *)
(* definitions, an exclusion list, and what has been registered.           *)
(***************************************************************************)
\* renderTypeName (lines 77-84)
renderTypeName(def) ==
  LET parsed == parseApiTypeName(def)
  IN  IF parsed.version = Undefined
        THEN parsed.basename
        ELSE getTypeName(FALSE, parsed.basename, parsed.version.raw)

DefinitionsOf(defs) ==
  [k \in {defs[i].key : i \in 1..Len(defs)} |->
     (CHOOSE e \in {defs[i] : i \in 1..Len(defs)} : e.key = k).node]

TypeGenerator(definitions, exclude) ==
  [ defs         |-> DefinitionsOf(definitions),
    exclude      |-> exclude,
    emitted      |-> {},    \* names of the registered types
    constructs   |-> {},    \* names of the registered wrapper types
    expanded     |-> {},    \* keys registered as types of their own
    placeholders |-> {},    \* excluded keys registered as opaque placeholders
    aliasRefs    |-> {},    \* keys reached through an indirection
    unresolved   |-> {} ]   \* referenced keys that are not in the table

NewTypeGeneratorNoExclude(definitions, exclude) == TypeGenerator(definitions, {})

\* new TypeGenerator({ definitions, exclude, renderTypeName }) (lines 74-85)
NewTypeGenerator(definitions, exclude) == TypeGenerator(definitions, exclude)

\* typeGenerator.addDefinition(key, node): add or replace
addDefinition(g, key, node) ==
  [g EXCEPT !.defs = (key :> node) @@ g.defs]

RewriteToConstruct(o) == [ref |-> <<getConstructTypeName(o)>>]

\* { $ref: `#/definitions/${getPropsTypeName(o)}` } (line 93)
Rewrite(o) == [ref |-> <<getPropsTypeName(o)>>]

RECURSIVE Walk(_, _)
\* the recursive expansion: every key in work is visited once; an excluded key
\* becomes a placeholder and is not expanded; a key whose name is already
\* registered is a no-op
Walk(work, g) ==
  IF work = {} THEN g
  ELSE LET k == CHOOSE x \in work : TRUE
           rest == work \ {k}
       IN  IF k \in g.exclude
             THEN Walk(rest, [g EXCEPT !.placeholders = @ \cup {k}])
           ELSE IF k \notin DOMAIN g.defs
             THEN Walk(rest, [g EXCEPT !.unresolved = @ \cup {k}])
           ELSE IF IsIndirection(g.defs[k])
             THEN Walk(rest, [g EXCEPT !.aliasRefs = @ \cup {g.defs[k].ref}])
           ELSE IF renderTypeName(k) \in g.emitted
             THEN Walk(rest, g)
           ELSE Walk(rest \cup g.defs[k].refs,
                     [g EXCEPT !.emitted = @ \cup {renderTypeName(k)},
                               !.expanded = @ \cup {k}])

\* generateConstruct(typeGenerator, o): the wrapper type, its properties type
\* (the descriptor's own schema) and everything reachable from it
generateConstruct(g, o) ==
  IF getConstructTypeName(o) \in g.emitted THEN g
  ELSE Walk(o.schema.refs,
            [g EXCEPT !.emitted = @ \cup {getConstructTypeName(o), getPropsTypeName(o)},
                      !.constructs = @ \cup {getConstructTypeName(o)}])

\* whether typeGenerator.render() throws: a reference that resolves to nothing
RenderFails(g) ==
  \/ g.unresolved # {}
  \/ \E r \in g.aliasRefs : renderTypeName(r) \notin g.emitted

\* typeGenerator.render(): the source text of everything registered
render(g) == [kind |-> "types", names |-> g.emitted, any |-> g.placeholders]

(***************************************************************************)
(* The import run.                                                         *)
(***************************************************************************)
Init ==
  /\ pc = "start"
  /\ error = ""
  /\ source = <<>>
  /\ options = Undefined
  /\ moduleName = ""
  /\ classNamePrefix = Undefined
  /\ retrievals = 0
  /\ schema = <<>>
  /\ si = 0
  /\ result = <<>>
  /\ topLevelObjects = <<>>
  /\ tg = Undefined
  /\ ri = 0
  /\ gi = 0
  /\ code = <<>>

Throw(e) == pc' = "failed" /\ error' = e

\* match, line 38: the source is not of the k8s family
MatchNoMatch(S) ==
  /\ pc = "start"
  /\ \E src \in S :
       /\ NotK8sFamily(src)
       /\ source' = src
  /\ pc' = "nomatch"
  /\ UNCHANGED <<error, options, moduleName, classNamePrefix, retrievals, schema,
                 si, result, topLevelObjects, tg, ri, gi, code>>

\* match, line 45: the version does not match the format
MatchThrows(S) ==
  /\ pc = "start"
  /\ \E src \in S :
       /\ ~NotK8sFamily(src)
       /\ ~k8sVersionRegexTest(k8sVersion(src))
       /\ source' = src
  /\ Throw("InvalidVersionFormat")
  /\ UNCHANGED <<options, moduleName, classNamePrefix, retrievals, schema,
                 si, result, topLevelObjects, tg, ri, gi, code>>

\* match, lines 50-53: the options
MatchReturns(S, E) ==
  /\ pc = "start"
  /\ \E src \in S, ex \in E :
       /\ ~NotK8sFamily(src)
       /\ k8sVersionRegexTest(k8sVersion(src))
       /\ source' = src
       /\ options' = [apiVersion |-> k8sVersion(src), exclude |-> ex]
  /\ pc' = "matched"
  /\ UNCHANGED <<error, moduleName, classNamePrefix, retrievals, schema,
                 si, result, topLevelObjects, tg, ri, gi, code>>

\* the caller invokes generateTypeScript(code, moduleName, options) on
\* new ImportKubernetesApi(options)
GenerateTypeScript ==
  /\ pc = "matched"
  /\ \E m \in ModuleNames, p \in ClassNamePrefixes :
       /\ moduleName' = m
       /\ classNamePrefix' = p
  /\ pc' = "download"
  /\ UNCHANGED <<error, source, options, retrievals, schema,
                 si, result, topLevelObjects, tg, ri, gi, code>>

\* downloadSchema, lines 177-181: download(url) throws
DownloadThrows ==
  /\ pc = "download"
  /\ retrievals' = retrievals + 1
  /\ Throw("SchemaRetrievalFailed")
  /\ UNCHANGED <<source, options, moduleName, classNamePrefix, schema,
                 si, result, topLevelObjects, tg, ri, gi, code>>

\* downloadSchema, lines 182-186: safeParseJsonSchema throws
ParseThrows ==
  /\ pc = "download"
  /\ retrievals' = retrievals + 1
  /\ Throw("SchemaParseFailed")
  /\ UNCHANGED <<source, options, moduleName, classNamePrefix, schema,
                 si, result, topLevelObjects, tg, ri, gi, code>>

\* downloadSchema returns the parsed schema (line 65)
DownloadReturns ==
  /\ pc = "download"
  /\ retrievals' = retrievals + 1
  /\ \E d \in Schemas : schema' = d
  /\ pc' = "checkModule"
  /\ UNCHANGED <<error, source, options, moduleName, classNamePrefix,
                 si, result, topLevelObjects, tg, ri, gi, code>>

\* lines 67-69
ModuleNameThrows ==
  /\ pc = "checkModule"
  /\ moduleName # "k8s"
  /\ Throw("UnexpectedModuleName")
  /\ UNCHANGED <<source, options, moduleName, classNamePrefix, retrievals, schema,
                 si, result, topLevelObjects, tg, ri, gi, code>>

\* lines 71-72: findApiObjectDefinitions(schema, prefix) is entered
ScanEnter ==
  /\ pc = "checkModule"
  /\ moduleName = "k8s"
  /\ si' = 1
  /\ result' = <<>>
  /\ pc' = "scan"
  /\ UNCHANGED <<error, source, options, moduleName, classNamePrefix, retrievals,
                 schema, topLevelObjects, tg, ri, gi, code>>

\* the entry the scan's loop is at (line 120)
ScanEntry == schema[si]

\* lines 121-124: not an API object
ScanSkips ==
  /\ pc = "scan"
  /\ si <= Len(schema)
  /\ tryGetObjectName(ScanEntry.node) = Undefined
  /\ si' = si + 1
  /\ UNCHANGED <<pc, error, source, options, moduleName, classNamePrefix,
                 retrievals, schema, result, topLevelObjects, tg, ri, gi, code>>

\* lines 126-129: an API object whose key has no version
ScanThrows ==
  /\ pc = "scan"
  /\ si <= Len(schema)
  /\ tryGetObjectName(ScanEntry.node) # Undefined
  /\ MissingVersion(parseApiTypeName(ScanEntry.key))
  /\ Throw("MissingVersionForApiObject")
  /\ UNCHANGED <<source, options, moduleName, classNamePrefix, retrievals, schema,
                 si, result, topLevelObjects, tg, ri, gi, code>>

\* lines 130-138: the descriptor is pushed
ScanPushes ==
  /\ pc = "scan"
  /\ si <= Len(schema)
  /\ tryGetObjectName(ScanEntry.node) # Undefined
  /\ ~MissingVersion(parseApiTypeName(ScanEntry.key))
  /\ result' = Append(result,
                      ApiObjectDefinition(parseApiTypeName(ScanEntry.key),
                                          tryGetObjectName(ScanEntry.node),
                                          ScanEntry.node, prefix))
  /\ si' = si + 1
  /\ UNCHANGED <<pc, error, source, options, moduleName, classNamePrefix,
                 retrievals, schema, topLevelObjects, tg, ri, gi, code>>

\* line 141, line 72: the scan returns its result
ScanReturns ==
  /\ pc = "scan"
  /\ si > Len(schema)
  /\ topLevelObjects' = result
  /\ pc' = "typegen"
  /\ UNCHANGED <<error, source, options, moduleName, classNamePrefix, retrievals,
                 schema, si, result, tg, ri, gi, code>>

\* lines 74-85
ConstructTypeGenerator ==
  /\ pc = "typegen"
  /\ tg' = NewTypeGenerator(schema, options.exclude)
  /\ ri' = 1
  /\ pc' = "rewrite"
  /\ UNCHANGED <<error, source, options, moduleName, classNamePrefix, retrievals,
                 schema, si, result, topLevelObjects, gi, code>>

RewriteLoopDoneAfterFirst == ri > 1 \/ ri > Len(topLevelObjects)

\* the loop of line 92 has gone through every descriptor
RewriteLoopDone == ri > Len(topLevelObjects)

\* lines 92-94: one iteration of the rewrite loop
RewriteStep ==
  /\ pc = "rewrite"
  /\ ~RewriteLoopDone
  /\ tg' = addDefinition(tg, topLevelObjects[ri].fqn, Rewrite(topLevelObjects[ri]))
  /\ ri' = ri + 1
  /\ UNCHANGED <<pc, error, source, options, moduleName, classNamePrefix,
                 retrievals, schema, si, result, topLevelObjects, gi, code>>

RewriteExit ==
  /\ pc = "rewrite"
  /\ RewriteLoopDone
  /\ gi' = 1
  /\ pc' = "generate"
  /\ UNCHANGED <<error, source, options, moduleName, classNamePrefix, retrievals,
                 schema, si, result, topLevelObjects, tg, ri, code>>

\* lines 97-99: one iteration of the construct loop
GenerateStep ==
  /\ pc = "generate"
  /\ gi <= Len(topLevelObjects)
  /\ tg' = generateConstruct(tg, topLevelObjects[gi])
  /\ gi' = gi + 1
  /\ UNCHANGED <<pc, error, source, options, moduleName, classNamePrefix,
                 retrievals, schema, si, result, topLevelObjects, ri, code>>

GenerateExit ==
  /\ pc = "generate"
  /\ gi > Len(topLevelObjects)
  /\ pc' = "emitHeader"
  /\ UNCHANGED <<error, source, options, moduleName, classNamePrefix, retrievals,
                 schema, si, result, topLevelObjects, tg, ri, gi, code>>

\* line 101: emitHeader(code, false)
EmitHeader ==
  /\ pc = "emitHeader"
  /\ code' = Append(code, [kind |-> "header"])
  /\ pc' = "render"
  /\ UNCHANGED <<error, source, options, moduleName, classNamePrefix, retrievals,
                 schema, si, result, topLevelObjects, tg, ri, gi>>

\* line 103: typeGenerator.render() throws
RenderThrows ==
  /\ pc = "render"
  /\ RenderFails(tg)
  /\ Throw("RenderingEngineError")
  /\ UNCHANGED <<source, options, moduleName, classNamePrefix, retrievals, schema,
                 si, result, topLevelObjects, tg, ri, gi, code>>

\* line 103: code.line(typeGenerator.render())
RenderReturns ==
  /\ pc = "render"
  /\ ~RenderFails(tg)
  /\ code' = Append(code, render(tg))
  /\ pc' = "done"
  /\ UNCHANGED <<error, source, options, moduleName, classNamePrefix, retrievals,
                 schema, si, result, topLevelObjects, tg, ri, gi>>

Next ==
  \/ MatchNoMatch(SmallSources)
  \/ MatchThrows(SmallSources)
  \/ MatchReturns(SmallSources, ExcludeLists)
  \/ GenerateTypeScript
  \/ DownloadThrows
  \/ ParseThrows
  \/ DownloadReturns
  \/ ModuleNameThrows
  \/ ScanEnter
  \/ ScanSkips
  \/ ScanThrows
  \/ ScanPushes
  \/ ScanReturns
  \/ ConstructTypeGenerator
  \/ RewriteStep
  \/ RewriteExit
  \/ GenerateStep
  \/ GenerateExit
  \/ EmitHeader
  \/ RenderThrows
  \/ RenderReturns

Spec == Init /\ [][Next]_vars

\* match over every bounded source, up to the start of the retrieval
NextMatch ==
  \/ MatchNoMatch(AllSources)
  \/ MatchThrows(AllSources)
  \/ MatchReturns(AllSources, {{}})
  \/ GenerateTypeScript
  \/ DownloadThrows
  \/ ParseThrows

SpecMatch == Init /\ [][NextMatch]_vars

(***************************************************************************)
(* What the claims speak about, stated without the code's own operators.   *)
(***************************************************************************)
\* the node carries the resource-identity annotation with a non-empty list
CarriesIdentity(node) == node.xgvk # Undefined /\ node.xgvk.list # <<>>

\* the classifier's rule (spec 4.2): the annotation and a metadata property
IsApiObject(node) == CarriesIdentity(node) /\ node.metadata

\* the key has a version segment before its base name
Versioned(key) == Len(key) >= 2 /\ key[Len(key) - 1] \in VersionSegments

SchemaKeys == {schema[i].key : i \in 1..Len(schema)}

SchemaNode(k) == (CHOOSE e \in {schema[i] : i \in 1..Len(schema)} : e.key = k).node

\* the scan has returned to generateTypeScript
AfterScan ==
  \/ pc \in {"typegen", "rewrite", "generate", "emitHeader", "render", "done"}
  \/ pc = "failed" /\ error = "RenderingEngineError"

\* the rewrite loop has been left
AfterRewrite ==
  \/ pc \in {"generate", "emitHeader", "render", "done"}
  \/ pc = "failed" /\ error = "RenderingEngineError"

\* C1: the classifier yields the first-listed triple exactly for the nodes
\* that carry a non-empty identity annotation and declare metadata, and
\* "not an API object" for every other node; such a node produces no
\* descriptor and is never the reason the scan fails.
ClassifierExclusivity ==
  /\ \A i \in 1..Len(schema) :
       tryGetObjectName(schema[i].node) =
         IF IsApiObject(schema[i].node)
           THEN Head(schema[i].node.xgvk.list)
           ELSE Undefined
  /\ \A j \in 1..Len(result) : IsApiObject(SchemaNode(result[j].fqn))
  /\ error = "MissingVersionForApiObject" => IsApiObject(schema[si].node)

\* the scan has returned having met a node with two triples, one with the
\* annotation but no metadata, and one with an empty annotation
ClassifierWitness ==
  /\ pc = "typegen"
  /\ Len(schema) = 3
  /\ schema[1].node = Shape([list |-> <<T2, T1>>], TRUE, {})
  /\ schema[2].node = Shape([list |-> <<T1>>], FALSE, {})
  /\ schema[3].node = Shape([list |-> <<>>], TRUE, {})
  /\ Len(topLevelObjects) = 1
  /\ topLevelObjects[1].version = "v2"

\* some entry is classified as an API object and its key has no version
HasUnversionedApiObject ==
  \E i \in 1..Len(schema) : IsApiObject(schema[i].node) /\ ~Versioned(schema[i].key)

GlobalBarrier ==
  (tg # Undefined /\ (gi > 1 \/ tg.constructs # {})) =>
     \A i \in 1..Len(topLevelObjects) :
        IsIndirection(tg.defs[topLevelObjects[i].fqn])

\* generateConstruct has run for the first of two descriptors only
GlobalBarrierWitness ==
  /\ pc = "generate"
  /\ gi = 2
  /\ Len(topLevelObjects) = 2
  /\ tg.constructs # {}
  /\ IsIndirection(tg.defs[topLevelObjects[2].fqn])

WrapperNames == {getConstructTypeName(topLevelObjects[i]) : i \in 1..Len(topLevelObjects)}

PropsNames == {getPropsTypeName(topLevelObjects[i]) : i \in 1..Len(topLevelObjects)}

\* the keys that are not a descriptor's key: they are rendered under
\* renderTypeName
OtherKeys == SchemaKeys \ {topLevelObjects[i].fqn : i \in 1..Len(topLevelObjects)}

\* C5: after scan and rewrite no two descriptors share a wrapper name or a
\* properties name, no wrapper name is a properties name, and no derived name
\* is the rendered name of another key of the graph or shared by two of them;
\* otherwise the import has failed with a name-collision error.
CollisionFreedom ==
  AfterRewrite =>
    /\ \A i, j \in 1..Len(topLevelObjects) :
         i # j => /\ getConstructTypeName(topLevelObjects[i])
                       # getConstructTypeName(topLevelObjects[j])
                  /\ getPropsTypeName(topLevelObjects[i])
                       # getPropsTypeName(topLevelObjects[j])
    /\ WrapperNames \cap PropsNames = {}
    /\ \A k \in OtherKeys : renderTypeName(k) \notin WrapperNames \cup PropsNames
    /\ \A k, l \in OtherKeys : k # l => renderTypeName(k) # renderTypeName(l)

\* C6: no two descriptors of one scan carry the same (group, kind, version).
DescriptorIdentityUnique ==
  \A i, j \in 1..Len(topLevelObjects) :
     i # j => <<topLevelObjects[i].group, topLevelObjects[i].kind,
                topLevelObjects[i].version>>
              # <<topLevelObjects[j].group, topLevelObjects[j].kind,
                   topLevelObjects[j].version>>

\* the text after 'k8s@', or the baseline when the source is 'k8s'
VersionSuffix(src) ==
  IF src = K8S THEN DEFAULT_API_VERSION ELSE SubSeq(src, 5, Len(src))

\* <major>.<minor>.<patch>, digits only
WellFormedVersion(v) ==
  \E i, j \in 1..Len(v) :
     /\ 1 < i /\ i + 1 < j /\ j < Len(v)
     /\ v[i] = "." /\ v[j] = "."
     /\ \A k \in (1..Len(v)) \ {i, j} : v[k] \in Digits

InFamily(src) == src = K8S \/ (Len(src) >= 4 /\ SubSeq(src, 1, 4) = K8S \o <<"@">>)

\* C7: for a source of the k8s family the version is the suffix after '@' (the
\* baseline without a suffix); if it is not <major>.<minor>.<patch> match
\* fails and no retrieval is ever started, otherwise match returns that
\* version; a source outside the family yields no match and no error.
FailFastVersionValidation ==
  pc # "start" =>
    IF InFamily(source)
      THEN IF WellFormedVersion(VersionSuffix(source))
             THEN /\ error # "InvalidVersionFormat"
                  /\ options # Undefined
                  /\ options.apiVersion = VersionSuffix(source)
             ELSE /\ pc = "failed"
                  /\ error = "InvalidVersionFormat"
                  /\ retrievals = 0
      ELSE pc = "nomatch" /\ error = "" /\ options = Undefined /\ retrievals = 0

\* C8: once the import has failed nothing has been written to the output, and
\* once it is done the header and the complete rendered type set have been.
NoPartialSuccess ==
  /\ pc = "failed" => code = <<>>
  /\ pc = "done" => code = <<[kind |-> "header"], render(tg)>> /\ error = ""

\* the refs of a key of the schema; a key outside the schema has none
RefsOf(k) == IF k \in SchemaKeys THEN SchemaNode(k).refs ELSE {}

\* the descriptors generateConstruct has been called for
Generated == {topLevelObjects[i] : i \in 1..(gi - 1)}

RECURSIVE ReachAvoiding(_, _)
\* the keys reachable from the set S along references that do not leave an
\* excluded key
ReachAvoiding(S, excluded) ==
  LET more == S \cup UNION {RefsOf(k) : k \in S \ excluded}
  IN  IF more = S THEN S ELSE ReachAvoiding(more, excluded)

ApiEntries == SelectSeq(schema, LAMBDA e : IsApiObject(e.node))

====
